---------------------------- MODULE Spec2Model ----------------------------
(***************************************************************************)
(* Model of two command line programs of the repository:                   *)
(*                                                                         *)
(*   bin/cnv_utils/cnv_concordance_checker.py  (main and its helpers)      *)
(*   bin/cnv_utils/cnv_trio_inheritance.py     (module-level pipeline)     *)
(*                                                                         *)
(* A DataFrame is a record [cols, rows]: cols is the sequence of column    *)
(* names, rows the sequence of rows, each row a function from the column   *)
(* names to cells.  A cell is an integer, a string or a missing value      *)
(* (NaN / NULL / pd.NA).                                                   *)
(***************************************************************************)
EXTENDS Integers, Sequences, FiniteSets, TLC

VARIABLES
    file_a, file_b,     \* the two input tables as read by load_data
    df_a, df_b,         \* the working DataFrames of main
    overlaps_df,        \* result of flag_overlaps: set of <<id_a, id_b, flag>>
    summary,            \* the lines print_summary has printed
    out_a, out_b,       \* the output files: <<>> unwritten, <<frame>> written
    pc,                 \* position of main
    \* cnv_trio_inheritance.py
    FILE_CNV,           \* rows of the CNV file (SampleID, Chr, Start, End, Type)
    PEDIGREE_FILE,      \* rows of the pedigree file (SampleID, FatherID, MotherID)
    TYPE_COL,           \* "None" or the name of the type column
    OVERLAPS,           \* the requested fractions, each <<numerator, denominator>>
    n_cores,            \* multiprocessing.cpu_count() - 1
    data_used,          \* the filtered CNV table, then with its child column
    family_info,        \* the pedigree rows of complete trios
    parent_of,          \* dictionary: parent id -> its children joined by ","
    chunks,             \* the chunks handed to pool.map
    chunk_state,        \* per chunk: "queued", "running" or "done"
    result_chunks,      \* per chunk: what annotate_chunk returned
    done_order,         \* the chunks in the order the workers finished them
    child_rows,         \* child_cnv as first selected (line 143)
    child_cnv,          \* the child BED table (composite Chr, Start, End, Type)
    parents_cnv,        \* the parent BED table (composite Chr, Start, End)
    intersect,          \* per fraction done so far: the rows bedtools wrote
    output,             \* the output table: <<>> unwritten, <<rows>> written
    tpc                 \* position of the trio pipeline

cvars == <<file_a, file_b, df_a, df_b, overlaps_df, summary, out_a, out_b, pc>>

tvars == <<FILE_CNV, PEDIGREE_FILE, TYPE_COL, OVERLAPS, n_cores, data_used, family_info,
           parent_of, chunks, chunk_state, result_chunks, done_order, child_rows,
           child_cnv, parents_cnv, intersect, output, tpc>>

vars == <<cvars, tvars>>

-----------------------------------------------------------------------------
(* Cells and frames *)

IntCell(n) == [kind |-> "int", num |-> n, str |-> ""]
StrCell(s) == [kind |-> "str", num |-> 0, str |-> s]
NACell     == [kind |-> "na",  num |-> 0, str |-> ""]

Range(s) == {s[i] : i \in DOMAIN s}

Min(x, y) == IF x <= y THEN x ELSE y
Max(x, y) == IF x >= y THEN x ELSE y

EmptyFrame == [cols |-> <<>>, rows |-> <<>>]

HasColumn(df, name) == name \in Range(df.cols)

\* A cell of a row; a column the row does not have reads as missing.
Get(row, name) == IF name \in DOMAIN row THEN row[name] ELSE NACell

\* df[name] = vals  (pandas __setitem__): an existing column is overwritten
\* in place, a new column is appended on the right.
SetColumn(df, name, vals) ==
    [cols |-> IF HasColumn(df, name) THEN df.cols ELSE Append(df.cols, name),
     rows |-> [i \in DOMAIN df.rows |->
                 [c \in (DOMAIN df.rows[i]) \cup {name} |->
                     IF c = name THEN vals[i] ELSE df.rows[i][c]]]]

\* df.drop(columns=[name])
DropColumn(df, name) ==
    [cols |-> SelectSeq(df.cols, LAMBDA c : c # name),
     rows |-> [i \in DOMAIN df.rows |->
                 [c \in (DOMAIN df.rows[i]) \ {name} |-> df.rows[i][c]]]]

\* SQL equality: NULL is equal to nothing, not even to NULL.
SqlEq(x, y) == x.kind # "na" /\ y.kind # "na" /\ x = y

-----------------------------------------------------------------------------
(* cnv_concordance_checker.py *)

\* add_row_ids: df["rowid"] = range(len(df))
add_row_ids(df) ==
    SetColumn(df, "rowid", [i \in DOMAIN df.rows |-> IntCell(i - 1)])

\* OverlapQueryColumns of a query that does not compare Type.
OverlapQueryColumnsNoType == {"rowid", "SampleID", "Chr", "Start", "End"}

\* The columns of df_a and of df_b that the query of flag_overlaps names.
OverlapQueryColumns == {"rowid", "SampleID", "Chr", "Start", "End", "Type"}

\* The query cannot be bound when a table lacks a column it names.
BinderError(dfa, dfb) ==
    \E c \in OverlapQueryColumns : ~HasColumn(dfa, c) \/ ~HasColumn(dfb, c)

\* JoinCondition without the Type comparison.
JoinConditionIgnoringType(a, b) ==
    /\ SqlEq(Get(a, "Chr"), Get(b, "Chr"))
    /\ SqlEq(Get(a, "SampleID"), Get(b, "SampleID"))
    /\ Get(a, "End").num > Get(b, "Start").num
    /\ Get(a, "Start").num < Get(b, "End").num

\* The ON clause of the join.
JoinCondition(a, b) ==
    /\ SqlEq(Get(a, "Chr"), Get(b, "Chr"))
    /\ SqlEq(Get(a, "SampleID"), Get(b, "SampleID"))
    /\ SqlEq(Get(a, "Type"), Get(b, "Type"))
    /\ Get(a, "End").num > Get(b, "Start").num
    /\ Get(a, "Start").num < Get(b, "End").num

\* overlap_len with LEAST and GREATEST exchanged: the span of the two intervals.
overlap_len_span(a, b) ==
    Max(Get(a, "End").num, Get(b, "End").num)
        - Min(Get(a, "Start").num, Get(b, "Start").num)

\* LEAST(End, End) - GREATEST(Start, Start)
overlap_len(a, b) ==
    Min(Get(a, "End").num, Get(b, "End").num)
        - Max(Get(a, "Start").num, Get(b, "Start").num)

len_of(a) == Get(a, "End").num - Get(a, "Start").num

\* reciprocal_overlap_flag testing only the fraction of the interval of df_a.
overlap_flag_one_sided(a, b) ==
    IF 2 * overlap_len(a, b) >= len_of(a) THEN 1 ELSE 0

\* CAST((overlap_len >= 0.5 * len_a AND overlap_len >= 0.5 * len_b) AS INTEGER)
reciprocal_overlap_flag(a, b) ==
    IF 2 * overlap_len(a, b) >= len_of(a) /\ 2 * overlap_len(a, b) >= len_of(b)
    THEN 1 ELSE 0

\* flag_overlaps: one tuple <<id_a, id_b, flag>> per joined pair that
\* passes WHERE overlap_len > 0.
flag_overlaps(dfa, dfb) ==
    {<<dfa.rows[i]["rowid"].num, dfb.rows[j]["rowid"].num,
       reciprocal_overlap_flag(dfa.rows[i], dfb.rows[j])>> :
        <<i, j>> \in {p \in (DOMAIN dfa.rows) \X (DOMAIN dfb.rows) :
                        /\ JoinCondition(dfa.rows[p[1]], dfb.rows[p[2]])
                        /\ overlap_len(dfa.rows[p[1]], dfb.rows[p[2]]) > 0}}

\* df["CNV_based_overlap"] = 0, then 1 at the index labels in ids.  The
\* index of a frame read by load_data is 0 .. len-1.
FlagColumn(df, name, ids) ==
    SetColumn(df, name,
              [i \in DOMAIN df.rows |-> IntCell(IF (i - 1) \in ids THEN 1 ELSE 0)])


\* df_a["CNV_based_overlap"] = 0, then 1 at the id_a of the rows of overlaps
\* whose reciprocal_overlap_flag is 1; df_b likewise with id_b.
FlaggedA(dfa, overlaps) ==
    FlagColumn(dfa, "CNV_based_overlap", {q[1] : q \in {r \in overlaps : r[3] = 1}})

FlaggedB(dfb, overlaps) ==
    FlagColumn(dfb, "CNV_based_overlap", {q[2] : q \in {r \in overlaps : r[3] = 1}})

\* GeneJoinCondition without the Type comparison.
GeneJoinConditionIgnoringType(a, b) ==
    /\ SqlEq(Get(a, "SampleID"), Get(b, "SampleID"))
    /\ SqlEq(Get(a, "Gene_ID"), Get(b, "Gene_ID"))

\* flag_gene_matches: the rows of table_a LEFT JOIN table_b, one tuple
\* <<rowid of a, j, flag>> per result row; j is the position of the joined
\* row of table_b, 0 for the row that no row of table_b joins.
GeneJoinCondition(a, b) ==
    /\ SqlEq(Get(a, "SampleID"), Get(b, "SampleID"))
    /\ SqlEq(Get(a, "Type"), Get(b, "Type"))
    /\ SqlEq(Get(a, "Gene_ID"), Get(b, "Gene_ID"))

flag_gene_matches(table_a, table_b) ==
    LET matches(i) == {j \in DOMAIN table_b.rows :
                          GeneJoinCondition(table_a.rows[i], table_b.rows[j])}
    IN  UNION {IF matches(i) = {}
               THEN {<<Get(table_a.rows[i], "rowid").num, 0, 0>>}
               ELSE {<<Get(table_a.rows[i], "rowid").num, j, 1>> : j \in matches(i)}
               : i \in DOMAIN table_a.rows}

\* GeneCheckEnabled with "or" in place of "and".
GeneCheckEnabledEither(dfa, dfb) == HasColumn(dfa, "Gene_ID") \/ HasColumn(dfb, "Gene_ID")

\* The condition of main's if: Gene_ID is a column of both frames.
GeneCheckEnabled(dfa, dfb) == HasColumn(dfa, "Gene_ID") /\ HasColumn(dfb, "Gene_ID")

\* df[name] = pd.NA
NAColumn(df, name) == SetColumn(df, name, [i \in DOMAIN df.rows |-> NACell])

\* Number of rows of df whose cells in every column of names are the integer 1.
CountOnes(df, names) ==
    Cardinality({i \in DOMAIN df.rows :
                    \A c \in names : Get(df.rows[i], c) = IntCell(1)})

\* df["gene_based_overlap"].notna().any()
GeneAvailable(df) ==
    \E i \in DOMAIN df.rows : Get(df.rows[i], "gene_based_overlap").kind # "na"

\* print_summary, for one frame: the lines printed, each <<name, label,
\* count, total>> (the percentage printed is count / total * 100).
SummaryOf(name, df) ==
    LET total == Len(df.rows)
    IN  <<  <<name, "CNVs", total, total>>,
            <<name, "CNV-overlap", CountOnes(df, {"CNV_based_overlap"}), total>> >>
        \o (IF GeneAvailable(df)
            THEN << <<name, "Gene-overlap", CountOnes(df, {"gene_based_overlap"}), total>>,
                    <<name, "Both overlap types",
                      CountOnes(df, {"CNV_based_overlap", "gene_based_overlap"}), total>> >>
            ELSE <<>>)

print_summary(dfa, dfb, name_a, name_b) == SummaryOf(name_a, dfa) \o SummaryOf(name_b, dfb)

-----------------------------------------------------------------------------
(* main, one action per step *)

\* df_a = add_row_ids(load_data(file_a)); df_b likewise; register both.
LoadData ==
    /\ pc = "load"
    /\ df_a' = add_row_ids(file_a)
    /\ df_b' = add_row_ids(file_b)
    /\ pc' = "flag_overlaps"
    /\ UNCHANGED <<file_a, file_b, overlaps_df, summary, out_a, out_b>>
    /\ UNCHANGED tvars

\* overlaps_df = flag_overlaps(con) and the two CNV_based_overlap columns.
\* The query raises when a column it names is missing; main does not catch it.
FlagOverlaps ==
    /\ pc = "flag_overlaps"
    /\ IF BinderError(df_a, df_b)
       THEN /\ pc' = "error"
            /\ UNCHANGED <<df_a, df_b, overlaps_df>>
       ELSE /\ overlaps_df' = flag_overlaps(df_a, df_b)
            /\ df_a' = FlaggedA(df_a, overlaps_df')
            /\ df_b' = FlaggedB(df_b, overlaps_df')
            /\ pc' = "flag_genes"
    /\ UNCHANGED <<file_a, file_b, summary, out_a, out_b>>
    /\ UNCHANGED tvars

\* The gene_based_overlap columns: 0/1 when both frames have Gene_ID, else NA.
FlagGenes ==
    /\ pc = "flag_genes"
    /\ IF GeneCheckEnabled(df_a, df_b)
       THEN /\ df_a' = FlagColumn(df_a, "gene_based_overlap",
                                  {r[1] : r \in {q \in flag_gene_matches(df_a, df_b) : q[3] = 1}})
            /\ df_b' = FlagColumn(df_b, "gene_based_overlap",
                                  {r[1] : r \in {q \in flag_gene_matches(df_b, df_a) : q[3] = 1}})
       ELSE /\ df_a' = NAColumn(df_a, "gene_based_overlap")
            /\ df_b' = NAColumn(df_b, "gene_based_overlap")
    /\ pc' = "summary"
    /\ UNCHANGED <<file_a, file_b, overlaps_df, summary, out_a, out_b>>
    /\ UNCHANGED tvars

PrintSummary ==
    /\ pc = "summary"
    /\ summary' = print_summary(df_a, df_b, "File A", "File B")
    /\ pc' = "drop_rowid"
    /\ UNCHANGED <<file_a, file_b, df_a, df_b, overlaps_df, out_a, out_b>>
    /\ UNCHANGED tvars

DropRowid ==
    /\ pc = "drop_rowid"
    /\ df_a' = DropColumn(df_a, "rowid")
    /\ df_b' = DropColumn(df_b, "rowid")
    /\ pc' = "save_a"
    /\ UNCHANGED <<file_a, file_b, overlaps_df, summary, out_a, out_b>>
    /\ UNCHANGED tvars

\* df_a.to_csv(out_a, ...)
SaveA ==
    /\ pc = "save_a"
    /\ out_a' = <<df_a>>
    /\ pc' = "save_b"
    /\ UNCHANGED <<file_a, file_b, df_a, df_b, overlaps_df, summary, out_b>>
    /\ UNCHANGED tvars

\* df_b.to_csv(out_b, ...)
SaveB ==
    /\ pc = "save_b"
    /\ out_b' = <<df_b>>
    /\ pc' = "done"
    /\ UNCHANGED <<file_a, file_b, df_a, df_b, overlaps_df, summary, out_a>>
    /\ UNCHANGED tvars

Next ==
    \/ LoadData
    \/ FlagOverlaps
    \/ FlagGenes
    \/ PrintSummary
    \/ DropRowid
    \/ SaveA
    \/ SaveB

-----------------------------------------------------------------------------
(* Inputs *)

MaxRowsA == 1
MaxRowsB == 2

MandatoryCols == <<"SampleID", "Chr", "Start", "End", "Type">>

\* Every attribute a row can be given; a frame keeps those of its columns.
Proto(sid, chr, start, end, type, gene) ==
    [SampleID |-> StrCell(sid), Chr |-> StrCell(chr), Start |-> IntCell(start),
     End |-> IntCell(end), Type |-> StrCell(type), Gene_ID |-> gene]

\* A cell of a column other than the six above holds the text "x".
MkRow(cols, proto) ==
    [c \in Range(cols) |-> IF c \in DOMAIN proto THEN proto[c] ELSE StrCell("x")]

MkFrame(cols, protos) ==
    [cols |-> cols, rows |-> [i \in DOMAIN protos |-> MkRow(cols, protos[i])]]

SeqsUpTo(S, n) == UNION {[1..k -> S] : k \in 1..n}

\* Intervals <<Start, End>>: a pair that qualifies with an overlap of exactly
\* half of each (<<0,2>>, <<1,3>>), one that overlaps by less than half of
\* one of the two (<<1,3>>, <<2,5>>), one that only touches (<<0,2>>,
\* <<2,5>>), an empty interval and a reversed one (inside <<2,5>>).
Intervals == {<<0, 2>>, <<1, 3>>, <<2, 5>>, <<2, 2>>, <<4, 3>>}
RefInterval == <<1, 3>>

\* Keys <<SampleID, Chr, Type>> that differ from the first in one component.
BaseKey == <<"S1", "chr1", "DEL">>
OtherKeys == {<<"S2", "chr1", "DEL">>, <<"S1", "chr2", "DEL">>, <<"S1", "chr1", "DUP">>}

\* Rows of the first key over every interval, and rows of the other keys.
RowPool ==
    {Proto(BaseKey[1], BaseKey[2], iv[1], iv[2], BaseKey[3], StrCell("G1")) : iv \in Intervals}
    \cup {Proto(k[1], k[2], RefInterval[1], RefInterval[2], k[3], StrCell("G1")) : k \in OtherKeys}

\* Rows of one gene under the first key on two intervals that only touch
\* and under the other keys, and rows with another gene and with no gene.
GenePool ==
    {Proto(BaseKey[1], BaseKey[2], iv[1], iv[2], BaseKey[3], StrCell("G1")) :
        iv \in {<<0, 2>>, <<2, 5>>}}
    \cup {Proto(k[1], k[2], RefInterval[1], RefInterval[2], k[3], StrCell("G1")) : k \in OtherKeys}
    \cup {Proto(BaseKey[1], BaseKey[2], RefInterval[1], RefInterval[2], BaseKey[3], g) :
            g \in {StrCell("G2"), NACell}}

AllCols == MandatoryCols \o <<"Gene_ID">>

\* The trio pipeline is not running.
TrioIdle ==
    /\ FILE_CNV = <<>> /\ PEDIGREE_FILE = <<>> /\ TYPE_COL = "None" /\ OVERLAPS = <<>>
    /\ n_cores = 0 /\ data_used = <<>> /\ family_info = <<>> /\ parent_of = <<>>
    /\ chunks = <<>> /\ chunk_state = <<>> /\ result_chunks = <<>> /\ done_order = <<>>
    /\ child_rows = <<>> /\ child_cnv = <<>> /\ parents_cnv = <<>> /\ intersect = <<>>
    /\ output = <<>> /\ tpc = "idle"

InitRun ==
    /\ df_a = EmptyFrame
    /\ df_b = EmptyFrame
    /\ overlaps_df = {}
    /\ summary = <<>>
    /\ out_a = <<>>
    /\ out_b = <<>>
    /\ pc = "load"
    /\ TrioIdle

\* Every column in both files; the rows vary.
Init ==
    /\ file_a \in {MkFrame(AllCols, ps) : ps \in SeqsUpTo(RowPool, MaxRowsA)}
    /\ file_b \in {MkFrame(AllCols, ps) : ps \in SeqsUpTo(RowPool, MaxRowsB)}
    /\ InitRun

Spec == Init /\ [][Next]_vars

\* Every column in both files; the genes vary.
InitGene ==
    /\ file_a \in {MkFrame(AllCols, ps) : ps \in SeqsUpTo(GenePool, MaxRowsA)}
    /\ file_b \in {MkFrame(AllCols, ps) : ps \in SeqsUpTo(GenePool, MaxRowsB)}
    /\ InitRun

SpecGene == InitGene /\ [][Next]_vars

\* The columns vary: up to MaxColumnChanges changes to the two headers, each
\* dropping a mandatory column from one file or adding to it a column whose
\* name main also uses (or an unrelated one, Note); Gene_ID present or not.
MaxColumnChanges == 1

ExtraCols == <<"rowid", "CNV_based_overlap", "gene_based_overlap", "Note">>

ColumnChanges ==
    ({"a", "b"} \X {"drop"} \X Range(MandatoryCols))
    \cup ({"a", "b"} \X {"add"} \X Range(ExtraCols))

RECURSIVE SubsetsUpTo(_, _)
SubsetsUpTo(S, k) ==
    IF k = 0 THEN {{}}
    ELSE SubsetsUpTo(S, k - 1)
         \cup {D \cup {x} : <<D, x>> \in SubsetsUpTo(S, k - 1) \X S}

ColsOf(side, D, hasGene) ==
    SelectSeq(MandatoryCols, LAMBDA c : <<side, "drop", c>> \notin D)
    \o (IF hasGene THEN <<"Gene_ID">> ELSE <<>>)
    \o SelectSeq(ExtraCols, LAMBDA c : <<side, "add", c>> \in D)

SchemaPool ==
    {Proto("S1", "chr1", 0, 2, "DEL", StrCell("G1")),
     Proto("S1", "chr1", 1, 3, "DEL", StrCell("G1")),
     Proto("S2", "chr1", 1, 3, "DEL", StrCell("G2"))}

InitSchema ==
    /\ \E D \in SubsetsUpTo(ColumnChanges, MaxColumnChanges) :
       \E ga \in BOOLEAN, gb \in BOOLEAN :
          /\ file_a \in {MkFrame(ColsOf("a", D, ga), ps) : ps \in SeqsUpTo(SchemaPool, MaxRowsA)}
          /\ file_b \in {MkFrame(ColsOf("b", D, gb), ps) : ps \in SeqsUpTo(SchemaPool, MaxRowsB)}
    /\ InitRun

SpecSchema == InitSchema /\ [][Next]_vars

-----------------------------------------------------------------------------
(* cnv_trio_inheritance.py *)

(* A string is a sequence of characters, so that concatenation and          *)
(* str.split do what they do in the program.  A token without "_" or ","    *)
(* (such as "chr1") stands for the run of characters it spells.             *)
DigitChar == <<"0", "1", "2", "3", "4", "5", "6", "7", "8", "9">>

RECURSIVE IntToStr(_)
\* pl.col("Start").cast(pl.Utf8): the decimal digits of a natural number.
IntToStr(n) ==
    IF n < 10 THEN <<DigitChar[n + 1]>>
    ELSE IntToStr(n \div 10) \o <<DigitChar[(n % 10) + 1]>>

RECURSIVE Join(_, _)
\* sep.join(strs)
Join(strs, sep) ==
    IF strs = <<>> THEN <<>>
    ELSE IF Len(strs) = 1 THEN strs[1]
    ELSE strs[1] \o <<sep>> \o Join(Tail(strs), sep)

RECURSIVE Split(_, _)
\* str.split(sep): the pieces between the separators; "" splits into [""].
Split(str, sep) ==
    IF \A i \in DOMAIN str : str[i] # sep THEN <<str>>
    ELSE LET i == CHOOSE k \in DOMAIN str :
                     str[k] = sep /\ \A m \in 1..(k - 1) : str[m] # sep
         IN  <<SubSeq(str, 1, i - 1)>> \o Split(SubSeq(str, i + 1, Len(str)), sep)

RECURSIVE Flatten(_)
\* pl.concat of a list of tables / explode of a list of lists
Flatten(seqs) ==
    IF seqs = <<>> THEN <<>> ELSE Head(seqs) \o Flatten(Tail(seqs))

\* The awk filter: ids holds every cell of the first three pedigree columns,
\* header line included; a CNV line is kept when its first field is in ids.
PedigreeIds(ped) ==
    {<<"SampleID">>, <<"FatherID">>, <<"MotherID">>}
    \cup {ped[i].SampleID : i \in DOMAIN ped}
    \cup {ped[i].FatherID : i \in DOMAIN ped}
    \cup {ped[i].MotherID : i \in DOMAIN ped}

FilterCnv(cnv, ped) == SelectSeq(cnv, LAMBDA r : r.SampleID \in PedigreeIds(ped))

\* Filter trios: child, father, mother all in CNV data
CompleteTrios(ped, data) ==
    LET sample_ids == {data[i].SampleID : i \in DOMAIN data}
    IN  SelectSeq(ped, LAMBDA t : /\ t.SampleID \in sample_ids
                                  /\ t.FatherID \in sample_ids
                                  /\ t.MotherID \in sample_ids)

ParentIds(fam) ==
    {fam[i].FatherID : i \in DOMAIN fam} \cup {fam[i].MotherID : i \in DOMAIN fam}

ChildIds(fam) == {fam[i].SampleID : i \in DOMAIN fam}

\* parent_of: parent id -> the ids of its children, joined by ","
ParentOf(fam) ==
    [pid \in ParentIds(fam) |->
        LET rows == SelectSeq(fam, LAMBDA t : t.FatherID = pid \/ t.MotherID = pid)
        IN  Join([i \in DOMAIN rows |-> rows[i].SampleID], ",")]

\* chunks = [data_used[i:i+chunk_size] for i in range(0, len(data_used), chunk_size)]
ChunksOf(data, cores) ==
    LET chunk_size == (Len(data) + cores - 1) \div cores
        n == (Len(data) + chunk_size - 1) \div chunk_size
    IN  [k \in 1..n |-> SubSeq(data, (k - 1) * chunk_size + 1,
                               Min(k * chunk_size, Len(data)))]

WithChild(r, c) ==
    [SampleID |-> r.SampleID, Chr |-> r.Chr, Start |-> r.Start, End |-> r.End,
     Type |-> r.Type, child |-> c]

\* parent_of.get(sid, "") for every row of the chunk
annotate_chunk(chunk, lookup) ==
    [i \in DOMAIN chunk |->
        WithChild(chunk[i], IF chunk[i].SampleID \in DOMAIN lookup
                            THEN lookup[chunk[i].SampleID] ELSE <<>>)]

\* An alternative collection of the results: in the order the workers finished.
MapResultsAsCompleted(results, order) == [k \in DOMAIN results |-> results[order[k]]]

\* pool.map returns the results in the order of the chunks it was given.
MapResults(results, order) == [k \in DOMAIN results |-> results[k]]

\* with_columns(child.str.split(",")).explode("child")
Explode(data) ==
    Flatten([i \in DOMAIN data |->
        LET cs == Split(data[i].child, ",")
        IN  [j \in DOMAIN cs |-> WithChild(data[i], cs[j])]])

\* The composite chromosome label: id + "_" + Chr [+ "_" + type]
CompositeLabel(id, chr, type, type_col) ==
    IF type_col = "None" THEN id \o <<"_">> \o chr
    ELSE id \o <<"_">> \o chr \o <<"_">> \o type

\* child_cnv with its composite label, SampleID and child dropped
ChildBed(rows, type_col) ==
    [i \in DOMAIN rows |->
        [Chr |-> CompositeLabel(rows[i].SampleID, rows[i].Chr, rows[i].Type, type_col),
         Start |-> rows[i].Start, End |-> rows[i].End, Type |-> rows[i].Type]]

\* parents_cnv with its composite label, reduced to Chr, Start, End
ParentsBed(rows, type_col) ==
    [i \in DOMAIN rows |->
        [Chr |-> CompositeLabel(rows[i].child, rows[i].Chr, rows[i].Type, type_col),
         Start |-> rows[i].Start, End |-> rows[i].End]]

\* bedtools intersect -f f -r: same chromosome field, at least one shared base,
\* and the shared bases are at least the fraction f of a and of b.
BedOverlaps(a, b, f) ==
    LET ov == Min(a.End, b.End) - Max(a.Start, b.Start)
    IN  /\ a.Chr = b.Chr
        /\ ov > 0
        /\ ov * f[2] >= f[1] * (a.End - a.Start)
        /\ ov * f[2] >= f[1] * (b.End - b.Start)

\* bedtools intersect -a a_bed -b b_bed -f f -r -wa: the row of a, once for
\* every row of b it overlaps.
BedtoolsIntersect(a_bed, b_bed, f) ==
    Flatten([i \in DOMAIN a_bed |->
        LET hits == SelectSeq(b_bed, LAMBDA b : BedOverlaps(a_bed[i], b, f))
        IN  [j \in DOMAIN hits |-> a_bed[i]]])

\* ID = Chr + "_" + Start + "_" + End
IdOf(r) == r.Chr \o <<"_">> \o IntToStr(r.Start) \o <<"_">> \o IntToStr(r.End)

\* list.get(k) of a polars list (0-based): null when the list is too short.
ListGet(l, k) == IF k + 1 \in DOMAIN l THEN l[k + 1] ELSE <<"null">>

\* The final table: the observed_in_parent_ovlap columns, then SampleID and
\* Chr read back from the composite label, SampleID first.
FinalTable(bed, results, fractions) ==
    [i \in DOMAIN bed |->
        [SampleID |-> ListGet(Split(bed[i].Chr, "_"), 0),
         Chr |-> ListGet(Split(bed[i].Chr, "_"), 1),
         Start |-> bed[i].Start, End |-> bed[i].End, Type |-> bed[i].Type,
         observed |-> [f \in Range(fractions) |->
             LET k == CHOOSE m \in DOMAIN fractions : fractions[m] = f
             IN  IdOf(bed[i]) \in {IdOf(results[k][j]) : j \in DOMAIN results[k]}]]]

(* The pipeline, one action per step *)

\* Lines 71-119: the awk filter, the two tables, the complete trios, parent_of.
FilterAndLoad ==
    /\ tpc = "filter"
    /\ data_used' = FilterCnv(FILE_CNV, PEDIGREE_FILE)
    /\ family_info' = CompleteTrios(PEDIGREE_FILE, data_used')
    /\ parent_of' = ParentOf(family_info')
    /\ tpc' = "chunk"
    /\ UNCHANGED <<FILE_CNV, PEDIGREE_FILE, TYPE_COL, OVERLAPS, n_cores, chunks, chunk_state,
                   result_chunks, done_order, child_rows, child_cnv, parents_cnv,
                   intersect, output>>
    /\ UNCHANGED cvars

\* Lines 123-125.  With no core left the division raises ZeroDivisionError;
\* with no row the range step is 0 and range raises ValueError.
MakeChunks ==
    /\ tpc = "chunk"
    /\ IF n_cores = 0 \/ Len(data_used) = 0
       THEN /\ tpc' = "error"
            /\ UNCHANGED <<chunks, chunk_state, result_chunks>>
       ELSE /\ chunks' = ChunksOf(data_used, n_cores)
            /\ chunk_state' = [k \in DOMAIN chunks' |-> "queued"]
            /\ result_chunks' = [k \in DOMAIN chunks' |-> <<>>]
            /\ tpc' = "pool"
    /\ UNCHANGED <<FILE_CNV, PEDIGREE_FILE, TYPE_COL, OVERLAPS, n_cores, data_used,
                   family_info, parent_of, done_order, child_rows, child_cnv,
                   parents_cnv, intersect, output>>
    /\ UNCHANGED cvars

\* A free worker of the pool takes the next chunk of the task queue.
StartChunk(k) ==
    /\ tpc = "pool"
    /\ chunk_state[k] = "queued"
    /\ \A m \in 1..(k - 1) : chunk_state[m] # "queued"
    /\ Cardinality({m \in DOMAIN chunk_state : chunk_state[m] = "running"}) < n_cores
    /\ chunk_state' = [chunk_state EXCEPT ![k] = "running"]
    /\ UNCHANGED <<FILE_CNV, PEDIGREE_FILE, TYPE_COL, OVERLAPS, n_cores, data_used,
                   family_info, parent_of, chunks, result_chunks, done_order, child_rows,
                   child_cnv, parents_cnv, intersect, output, tpc>>
    /\ UNCHANGED cvars

\* A worker returns annotate_chunk of its chunk; the workers finish in any order.
FinishChunk(k) ==
    /\ tpc = "pool"
    /\ chunk_state[k] = "running"
    /\ chunk_state' = [chunk_state EXCEPT ![k] = "done"]
    /\ result_chunks' = [result_chunks EXCEPT ![k] = annotate_chunk(chunks[k], parent_of)]
    /\ done_order' = Append(done_order, k)
    /\ UNCHANGED <<FILE_CNV, PEDIGREE_FILE, TYPE_COL, OVERLAPS, n_cores, data_used,
                   family_info, parent_of, chunks, child_rows, child_cnv, parents_cnv,
                   intersect, output, tpc>>
    /\ UNCHANGED cvars

\* Lines 133-135: pool.map returns once every chunk is done; pl.concat.
Concat ==
    /\ tpc = "pool"
    /\ \A k \in DOMAIN chunk_state : chunk_state[k] = "done"
    /\ data_used' = Flatten(MapResults(result_chunks, done_order))
    /\ tpc' = "reshape"
    /\ UNCHANGED <<FILE_CNV, PEDIGREE_FILE, TYPE_COL, OVERLAPS, n_cores, family_info,
                   parent_of, chunks, chunk_state, result_chunks, done_order, child_rows,
                   child_cnv, parents_cnv, intersect, output>>
    /\ UNCHANGED cvars

\* Lines 139-177: explode, the child and the parent selection, the composite
\* labels, the two BED files.
Reshape ==
    /\ tpc = "reshape"
    /\ LET cnv_ungrouped == Explode(data_used)
       IN  /\ child_rows' = SelectSeq(cnv_ungrouped,
                                      LAMBDA r : r.SampleID \in ChildIds(family_info))
           /\ child_cnv' = ChildBed(child_rows', TYPE_COL)
           /\ parents_cnv' = ParentsBed(SelectSeq(cnv_ungrouped,
                                 LAMBDA r : r.SampleID \in ParentIds(family_info)), TYPE_COL)
    /\ tpc' = "intersect"
    /\ UNCHANGED <<FILE_CNV, PEDIGREE_FILE, TYPE_COL, OVERLAPS, n_cores, data_used,
                   family_info, parent_of, chunks, chunk_state, result_chunks, done_order,
                   intersect, output>>
    /\ UNCHANGED cvars

\* Lines 181-184: one bedtools run per requested fraction.
Intersect ==
    /\ tpc = "intersect"
    /\ Len(intersect) < Len(OVERLAPS)
    /\ intersect' = Append(intersect,
                       BedtoolsIntersect(child_cnv, parents_cnv, OVERLAPS[Len(intersect) + 1]))
    /\ UNCHANGED <<FILE_CNV, PEDIGREE_FILE, TYPE_COL, OVERLAPS, n_cores, data_used,
                   family_info, parent_of, chunks, chunk_state, result_chunks, done_order,
                   child_rows, child_cnv, parents_cnv, output, tpc>>
    /\ UNCHANGED cvars

\* Lines 188-220: the child BED and every intersect file are read back
\* (pl.read_csv raises NoDataError on an empty file), the columns are added,
\* the table is written.
Annotate ==
    /\ tpc = "intersect"
    /\ Len(intersect) = Len(OVERLAPS)
    /\ IF child_cnv = <<>> \/ \E k \in DOMAIN intersect : intersect[k] = <<>>
       THEN /\ tpc' = "error"
            /\ UNCHANGED output
       ELSE /\ output' = <<FinalTable(child_cnv, intersect, OVERLAPS)>>
            /\ tpc' = "done"
    /\ UNCHANGED <<FILE_CNV, PEDIGREE_FILE, TYPE_COL, OVERLAPS, n_cores, data_used,
                   family_info, parent_of, chunks, chunk_state, result_chunks, done_order,
                   child_rows, child_cnv, parents_cnv, intersect>>
    /\ UNCHANGED cvars

NextTrio ==
    \/ FilterAndLoad
    \/ MakeChunks
    \/ \E k \in DOMAIN chunk_state : StartChunk(k)
    \/ \E k \in DOMAIN chunk_state : FinishChunk(k)
    \/ Concat
    \/ Reshape
    \/ Intersect
    \/ Annotate

(* Inputs of the pipeline *)

MaxCnvRows == 5
MaxCores == 3

Str(token) == <<token>>
IdC == Str("C")
IdCx == <<"C", "_", "x">>
IdF == Str("F")
IdM == Str("M")
IdG == Str("G")
IdU == Str("U")
Chr1 == Str("1")
Chr2 == Str("2")
ChrX1 == <<"x", "_", "1">>

CnvRow(id, chr, start, end, type) ==
    [SampleID |-> id, Chr |-> chr, Start |-> start, End |-> end, Type |-> Str(type)]

Trio(c, f, m) == [SampleID |-> c, FatherID |-> f, MotherID |-> m]

\* A CNV file: child, parent and unrelated records, on two chromosomes and a
\* third whose name holds an underscore, of two types.
MasterCnv ==
    <<CnvRow(IdF, Chr1, 150, 300, "DEL"),
      CnvRow(IdC, Chr1, 100, 200, "DEL"),
      CnvRow(IdM, Chr1, 100, 200, "DUP"),
      CnvRow(IdC, ChrX1, 100, 200, "DEL"),
      CnvRow(IdM, Chr1, 120, 200, "DEL"),
      CnvRow(IdCx, Chr1, 100, 200, "DEL"),
      CnvRow(IdG, Chr1, 100, 200, "DEL"),
      CnvRow(IdF, Chr2, 100, 200, "DEL"),
      CnvRow(IdU, Chr1, 100, 200, "DEL"),
      CnvRow(IdC, Chr2, 100, 200, "DEL")>>

\* The files made of at most n lines of a master file, in the master's order.
SubFiles(master, n) ==
    {LET idx == SelectSeq([i \in DOMAIN master |-> i], LAMBDA i : i \in S)
     IN  [k \in DOMAIN idx |-> master[idx[k]]] :
        S \in {T \in SUBSET DOMAIN master : Cardinality(T) <= n}}

Pedigrees ==
    {<<Trio(IdC, IdF, IdM)>>,
     <<Trio(IdC, IdF, IdM), Trio(IdCx, IdG, IdM)>>,
     <<Trio(IdCx, IdF, IdM), Trio(IdC, IdF, IdM)>>}

Half == <<1, 2>>
Tenth == <<1, 10>>

\* The concordance checker is not running.
ConcordanceIdle ==
    /\ file_a = EmptyFrame /\ file_b = EmptyFrame /\ df_a = EmptyFrame /\ df_b = EmptyFrame
    /\ overlaps_df = {} /\ summary = <<>> /\ out_a = <<>> /\ out_b = <<>> /\ pc = "idle"

InitTrioRun ==
    /\ data_used = <<>> /\ family_info = <<>> /\ parent_of = <<>>
    /\ chunks = <<>> /\ chunk_state = <<>> /\ result_chunks = <<>> /\ done_order = <<>>
    /\ child_rows = <<>> /\ child_cnv = <<>> /\ parents_cnv = <<>> /\ intersect = <<>>
    /\ output = <<>> /\ tpc = "filter"
    /\ ConcordanceIdle

\* The records, the pedigree, the type column and the fractions vary; one worker.
InitTrio ==
    /\ FILE_CNV \in SubFiles(MasterCnv, MaxCnvRows)
    /\ PEDIGREE_FILE \in Pedigrees
    /\ TYPE_COL \in {"None", "Type"}
    /\ OVERLAPS \in {<<Half>>, <<Tenth>>, <<Half, Tenth>>}
    /\ n_cores = 1
    /\ InitTrioRun

SpecTrio == InitTrio /\ [][NextTrio]_vars

\* The records and the number of workers vary.
InitPool ==
    /\ FILE_CNV \in SubFiles(MasterCnv, MaxCnvRows)
    /\ PEDIGREE_FILE = <<Trio(IdCx, IdF, IdM), Trio(IdC, IdF, IdM)>>
    /\ TYPE_COL = "None"
    /\ OVERLAPS = <<Tenth>>
    /\ n_cores \in 0..MaxCores
    /\ InitTrioRun

SpecPool == InitPool /\ [][NextTrio]_vars

MaxPedRows == 6

IdD == Str("D")
IdH == Str("H")

\* A CNV file of three generations: G and H, their child F, F's partner M,
\* and C and D, the children of F and M.
MasterPed ==
    <<CnvRow(IdG, Chr1, 100, 200, "DEL"),
      CnvRow(IdF, Chr1, 100, 200, "DEL"),
      CnvRow(IdC, Chr1, 100, 200, "DEL"),
      CnvRow(IdH, Chr1, 300, 400, "DEL"),
      CnvRow(IdF, Chr2, 100, 200, "DEL"),
      CnvRow(IdM, Chr1, 500, 600, "DEL"),
      CnvRow(IdD, Chr1, 120, 200, "DEL"),
      CnvRow(IdC, Chr2, 100, 200, "DEL")>>

\* F is a child with two children, with one child, or is not a child at all.
DeepPedigrees ==
    {<<Trio(IdF, IdG, IdH), Trio(IdC, IdF, IdM), Trio(IdD, IdF, IdM)>>,
     <<Trio(IdF, IdG, IdH), Trio(IdC, IdF, IdM)>>,
     <<Trio(IdC, IdF, IdM), Trio(IdD, IdF, IdM)>>}

\* The records and the pedigree vary, over up to three generations.
InitPed ==
    /\ FILE_CNV \in SubFiles(MasterPed, MaxPedRows)
    /\ PEDIGREE_FILE \in DeepPedigrees
    /\ TYPE_COL = "None"
    /\ OVERLAPS = <<Half>>
    /\ n_cores = 1
    /\ InitTrioRun

SpecPed == InitPed /\ [][NextTrio]_vars

-----------------------------------------------------------------------------
(* Properties of the concordance checker *)

AfterOverlaps == pc \in {"flag_genes", "summary", "drop_rowid", "save_a", "save_b", "done"}
AfterGenes == pc \in {"summary", "drop_rowid", "save_a", "save_b", "done"}

SameKey(a, b) ==
    a["SampleID"] = b["SampleID"] /\ a["Chr"] = b["Chr"] /\ a["Type"] = b["Type"]

OverlapOf(a, b) ==
    LET lo == IF a["Start"].num >= b["Start"].num THEN a["Start"].num ELSE b["Start"].num
        hi == IF a["End"].num <= b["End"].num THEN a["End"].num ELSE b["End"].num
    IN  hi - lo

\* The pair (a, b) qualifies: same key, positive overlap of at least half of
\* each of the two lengths.
Qualifies(a, b) ==
    /\ SameKey(a, b)
    /\ OverlapOf(a, b) > 0
    /\ 2 * OverlapOf(a, b) >= a["End"].num - a["Start"].num
    /\ 2 * OverlapOf(a, b) >= b["End"].num - b["Start"].num

Bit(p) == IntCell(IF p THEN 1 ELSE 0)

\* Every row of frame df (the rows of input `own`, in order) carries in
\* column CNV_based_overlap 1 iff some row of `other` qualifies with it.
CnvFlagsRight(df, own, other) ==
    /\ Len(df.rows) = Len(own.rows)
    /\ \A i \in DOMAIN own.rows :
          Get(df.rows[i], "CNV_based_overlap")
            = Bit(\E j \in DOMAIN other.rows : Qualifies(own.rows[i], other.rows[j]))

\* C1: once the overlaps are flagged, and in both output files, a record's
\* CNV_based_overlap is 1 iff the other collection holds a record of the same
\* (SampleID, Chr, Type) whose overlap with it is positive and at least half
\* of both lengths; it is 0 otherwise, never NA.
C1_CnvFlagIffQualifyingPartner ==
    /\ AfterOverlaps =>
          /\ CnvFlagsRight(df_a, file_a, file_b)
          /\ CnvFlagsRight(df_b, file_b, file_a)
    /\ pc = "done" =>
          /\ CnvFlagsRight(out_a[1], file_a, file_b)
          /\ CnvFlagsRight(out_b[1], file_b, file_a)

\* A record of A written with flag 1 that has, under its own key, one
\* qualifying partner and one partner that only touches it, the latter
\* written with flag 0.
C1_Witness ==
    /\ pc = "done"
    /\ \E i \in DOMAIN file_a.rows : \E j1, j2 \in DOMAIN file_b.rows :
          /\ Qualifies(file_a.rows[i], file_b.rows[j1])
          /\ SameKey(file_a.rows[i], file_b.rows[j2])
          /\ OverlapOf(file_a.rows[i], file_b.rows[j2]) = 0
          /\ out_a[1].rows[i]["CNV_based_overlap"] = IntCell(1)
          /\ out_b[1].rows[j2]["CNV_based_overlap"] = IntCell(0)

CnvColumn(df) == [i \in DOMAIN df.rows |-> Get(df.rows[i], "CNV_based_overlap")]

\* C2: the decision on a pair is the same from either side: the run on
\* (file_b, file_a) decides every pair as the run on (file_a, file_b) does
\* and yields the same flags with the two outputs exchanged; a pair decided 1
\* flags both of its records, and A has a flagged record iff B has one.
C2_SymmetricFlags ==
    AfterOverlaps =>
        LET sa == add_row_ids(file_b)
            sb == add_row_ids(file_a)
            swapped == flag_overlaps(sa, sb)
        IN  /\ \A q \in overlaps_df : <<q[2], q[1], q[3]>> \in swapped
            /\ \A q \in swapped : <<q[2], q[1], q[3]>> \in overlaps_df
            /\ CnvColumn(df_a) = CnvColumn(FlaggedB(sb, swapped))
            /\ CnvColumn(df_b) = CnvColumn(FlaggedA(sa, swapped))
            /\ \A q \in overlaps_df : q[3] = 1 =>
                  /\ CnvColumn(df_a)[q[1] + 1] = IntCell(1)
                  /\ CnvColumn(df_b)[q[2] + 1] = IntCell(1)
            /\ (\E i \in DOMAIN df_a.rows : CnvColumn(df_a)[i] = IntCell(1))
                <=> (\E j \in DOMAIN df_b.rows : CnvColumn(df_b)[j] = IntCell(1))

\* A finished run with a pair decided 1 and a pair decided 0 although the
\* overlap is at least half of the record of A (it is less than half of the
\* record of B).
C2_Witness ==
    /\ pc = "done"
    /\ \E q \in overlaps_df : q[3] = 1
    /\ \E q \in overlaps_df :
          /\ q[3] = 0
          /\ 2 * OverlapOf(file_a.rows[q[1] + 1], file_b.rows[q[2] + 1])
                >= file_a.rows[q[1] + 1]["End"].num - file_a.rows[q[1] + 1]["Start"].num

Invalid(r) == r["End"].num <= r["Start"].num

CoordinatesKept(out, file) ==
    /\ Len(out.rows) = Len(file.rows)
    /\ \A i \in DOMAIN file.rows :
          /\ Get(out.rows[i], "Start") = file.rows[i]["Start"]
          /\ Get(out.rows[i], "End") = file.rows[i]["End"]

\* C6: a record with End <= Start is never flagged CNV_based_overlap = 1, no
\* pair decided 1 contains it (so it flags no record of the other
\* collection: each flagged record has a partner with End > Start), the run
\* goes on, and both outputs carry the Start and End of their inputs.
C6_InvalidRecordNeverMatches ==
    /\ pc # "error"
    /\ AfterOverlaps =>
          /\ \A i \in DOMAIN file_a.rows : Invalid(file_a.rows[i]) =>
                /\ CnvColumn(df_a)[i] = IntCell(0)
                /\ \A q \in overlaps_df : q[1] = i - 1 => q[3] = 0
          /\ \A j \in DOMAIN file_b.rows : Invalid(file_b.rows[j]) =>
                /\ CnvColumn(df_b)[j] = IntCell(0)
                /\ \A q \in overlaps_df : q[2] = j - 1 => q[3] = 0
          /\ \A i \in DOMAIN file_a.rows : CnvColumn(df_a)[i] = IntCell(1) =>
                \E j \in DOMAIN file_b.rows :
                    ~Invalid(file_b.rows[j]) /\ Qualifies(file_a.rows[i], file_b.rows[j])
          /\ \A j \in DOMAIN file_b.rows : CnvColumn(df_b)[j] = IntCell(1) =>
                \E i \in DOMAIN file_a.rows :
                    ~Invalid(file_a.rows[i]) /\ Qualifies(file_a.rows[i], file_b.rows[j])
    /\ pc = "done" =>
          /\ CoordinatesKept(out_a[1], file_a)
          /\ CoordinatesKept(out_b[1], file_b)

\* A finished run in which a record of A with End < Start lies, under its
\* own key, strictly inside a record of B (the join's two coordinate tests
\* pass), and both are written with flag 0 and their coordinates.
C6_Witness ==
    /\ pc = "done"
    /\ \E i \in DOMAIN file_a.rows : \E j \in DOMAIN file_b.rows :
          /\ file_a.rows[i]["End"].num < file_a.rows[i]["Start"].num
          /\ SameKey(file_a.rows[i], file_b.rows[j])
          /\ file_a.rows[i]["End"].num > file_b.rows[j]["Start"].num
          /\ file_a.rows[i]["Start"].num < file_b.rows[j]["End"].num
          /\ out_a[1].rows[i]["CNV_based_overlap"] = IntCell(0)
          /\ out_b[1].rows[j]["CNV_based_overlap"] = IntCell(0)
          /\ out_a[1].rows[i]["Start"] = file_a.rows[i]["Start"]
          /\ out_a[1].rows[i]["End"] = file_a.rows[i]["End"]

NoValidRecord(file) == \A i \in DOMAIN file.rows : Invalid(file.rows[i])

AllUnflagged(df) == \A i \in DOMAIN df.rows : CnvColumn(df)[i] = IntCell(0)

\* C7, as claimed: when an input collection has no record with End > Start,
\* the run aborts: it never completes and neither output file is written.
C7_AbortsWithoutValidRecord ==
    (NoValidRecord(file_a) \/ NoValidRecord(file_b)) =>
        /\ out_a = <<>>
        /\ out_b = <<>>
        /\ pc # "done"

\* C7, amended: when every record of an input collection has End <= Start,
\* the run does not abort: it takes every step to the end, writes both
\* output files, and every record of both collections is flagged
\* CNV_based_overlap = 0.
C7_CompletesWithoutValidRecord ==
    (NoValidRecord(file_a) \/ NoValidRecord(file_b)) =>
        /\ pc # "error"
        /\ pc # "done" => ENABLED Next
        /\ AfterOverlaps => AllUnflagged(df_a) /\ AllUnflagged(df_b)
        /\ pc = "done" =>
              /\ out_a = <<df_a>> /\ out_b = <<df_b>>
              /\ Len(out_a[1].rows) = Len(file_a.rows)
              /\ Len(out_b[1].rows) = Len(file_b.rows)

\* A finished run, both files written, in which no record of A has
\* End > Start while B has a record with End > Start.
C7_Witness ==
    /\ pc = "done"
    /\ NoValidRecord(file_a)
    /\ ~NoValidRecord(file_b)
    /\ out_a # <<>> /\ out_b # <<>>
    /\ AllUnflagged(out_b[1])

GeneColumn(df) == [i \in DOMAIN df.rows |-> Get(df.rows[i], "gene_based_overlap")]

\* The cells SampleID, Type and Gene_ID of a and of b are the same, a
\* missing Gene_ID being the same as a missing Gene_ID.
SameGeneTuple(a, b) ==
    a["SampleID"] = b["SampleID"] /\ a["Type"] = b["Type"] /\ a["Gene_ID"] = b["Gene_ID"]

BothHaveGene == HasColumn(file_a, "Gene_ID") /\ HasColumn(file_b, "Gene_ID")

GeneAbsent == ~HasColumn(file_a, "Gene_ID") \/ ~HasColumn(file_b, "Gene_ID")

MissingMandatory(file) == \E c \in Range(MandatoryCols) : ~HasColumn(file, c)

AllGeneNA(df) ==
    \A i \in DOMAIN df.rows :
        "gene_based_overlap" \in DOMAIN df.rows[i] /\ GeneColumn(df)[i] = NACell

\* C4: when Gene_ID is not a column of both inputs, the run does not fail
\* for it (it stops only on a missing mandatory column), every
\* gene_based_overlap cell of both frames and both outputs is NA, the
\* CNV_based_overlap flags are computed as usual, and the summary holds the
\* total and CNV-overlap lines only: no gene-overlap or both-overlap line.
C4_GeneAbsentDegradesToNA ==
    GeneAbsent =>
        /\ pc = "error" => MissingMandatory(file_a) \/ MissingMandatory(file_b)
        /\ pc \notin {"done", "error"} => ENABLED Next
        /\ AfterOverlaps =>
              /\ CnvFlagsRight(df_a, file_a, file_b)
              /\ CnvFlagsRight(df_b, file_b, file_a)
        /\ AfterGenes => AllGeneNA(df_a) /\ AllGeneNA(df_b)
        /\ pc \in {"drop_rowid", "save_a", "save_b", "done"} =>
              summary = << <<"File A", "CNVs", Len(file_a.rows), Len(file_a.rows)>>,
                           <<"File A", "CNV-overlap", CountOnes(df_a, {"CNV_based_overlap"}),
                             Len(file_a.rows)>>,
                           <<"File B", "CNVs", Len(file_b.rows), Len(file_b.rows)>>,
                           <<"File B", "CNV-overlap", CountOnes(df_b, {"CNV_based_overlap"}),
                             Len(file_b.rows)>> >>
        /\ pc = "done" => AllGeneNA(out_a[1]) /\ AllGeneNA(out_b[1])

\* A finished run on inputs of which only A has Gene_ID, with a record of A
\* written with CNV_based_overlap = 1 and gene_based_overlap = NA.
C4_Witness ==
    /\ pc = "done"
    /\ HasColumn(file_a, "Gene_ID") /\ ~HasColumn(file_b, "Gene_ID")
    /\ \E i \in DOMAIN out_a[1].rows :
          CnvColumn(out_a[1])[i] = IntCell(1) /\ GeneColumn(out_a[1])[i] = NACell

FlagCols == {"CNV_based_overlap", "gene_based_overlap"}

\* out has the rows of file in order with every cell of file unchanged; the
\* columns of file, in order, are a strict prefix of those of out, followed
\* by flag columns only; the internal rowid is not a column of out.
Preserved(out, file) ==
    /\ Len(out.rows) = Len(file.rows)
    /\ \A i \in DOMAIN file.rows : \A c \in Range(file.cols) :
          c \in DOMAIN out.rows[i] /\ out.rows[i][c] = file.rows[i][c]
    /\ Len(out.cols) > Len(file.cols)
    /\ SubSeq(out.cols, 1, Len(file.cols)) = file.cols
    /\ \A k \in (Len(file.cols) + 1)..Len(out.cols) : out.cols[k] \in FlagCols
    /\ ~HasColumn(file, "rowid") => ~HasColumn(out, "rowid")

\* C5: for any input column set, each output has the rows of its input in
\* order with every input cell unchanged, the input columns in order as a
\* strict prefix of the output columns, only flag columns after them, and no
\* rowid column added.
C5_RowsAndColumnsPreserved ==
    pc = "done" => Preserved(out_a[1], file_a) /\ Preserved(out_b[1], file_b)

\* C8: when a mandatory column is missing from either input, the run stops
\* with the error raised by the overlap query: it never gets past that
\* step, and neither output file is ever written.
C8_MissingColumnAbortsBeforeOutput ==
    (MissingMandatory(file_a) \/ MissingMandatory(file_b)) =>
        /\ out_a = <<>>
        /\ out_b = <<>>
        /\ pc \in {"load", "flag_overlaps", "error"}
        /\ pc # "error" => ENABLED Next

\* The run has stopped with the error, nothing written, on inputs of which
\* only B misses a mandatory column.
C8_Witness ==
    /\ pc = "error"
    /\ MissingMandatory(file_b) /\ ~MissingMandatory(file_a)
    /\ out_a = <<>> /\ out_b = <<>>

-----------------------------------------------------------------------------
(* Properties of the trio pipeline *)

\* The input records of the father or the mother the pedigree gives to a sample.
OwnParentRecords(sid) ==
    {i \in DOMAIN FILE_CNV :
        \E t \in DOMAIN PEDIGREE_FILE :
            /\ PEDIGREE_FILE[t].SampleID = sid
            /\ FILE_CNV[i].SampleID \in {PEDIGREE_FILE[t].FatherID, PEDIGREE_FILE[t].MotherID}}

\* c and p share bases, at least the fraction f of each of them.
ReciprocalAt(c, p, f) ==
    LET lo == IF c.Start > p.Start THEN c.Start ELSE p.Start
        hi == IF c.End < p.End THEN c.End ELSE p.End
    IN  /\ hi > lo
        /\ (hi - lo) * f[2] >= f[1] * (c.End - c.Start)
        /\ (hi - lo) * f[2] >= f[1] * (p.End - p.Start)

\* A record of c's own father or mother, on c's chromosome, of c's type when
\* a type column is given, overlaps c reciprocally at fraction f.
ObservedInParent(c, f) ==
    \E i \in OwnParentRecords(c.SampleID) :
        /\ FILE_CNV[i].Chr = c.Chr
        /\ (TYPE_COL # "None" => FILE_CNV[i].Type = c.Type)
        /\ ReciprocalAt(c, FILE_CNV[i], f)

\* C9: in the written table, for every child interval and every requested
\* fraction, the observed_in_parent_ovlap column holds exactly when a record
\* of the child's own father or mother, on the same chromosome (and of the
\* same type when a type column is given), overlaps it reciprocally at that
\* fraction.
C9_ObservedIffOwnParentOverlaps ==
    tpc = "done" =>
        /\ Len(output[1]) = Len(child_rows)
        /\ \A k \in DOMAIN child_rows : \A f \in Range(OVERLAPS) :
               output[1][k].observed[f] = ObservedInParent(child_rows[k], f)

\* The table a single sequential pass over the loaded records gives.
SequentialPass == annotate_chunk(FilterCnv(FILE_CNV, PEDIGREE_FILE), parent_of)

\* The output file the steps after the annotation give from a table.
OutputFrom(data) ==
    LET kids == SelectSeq(Explode(data), LAMBDA r : r.SampleID \in ChildIds(family_info))
        pars == SelectSeq(Explode(data), LAMBDA r : r.SampleID \in ParentIds(family_info))
        a == ChildBed(kids, TYPE_COL)
        b == ParentsBed(pars, TYPE_COL)
    IN  FinalTable(a, [k \in DOMAIN OVERLAPS |-> BedtoolsIntersect(a, b, OVERLAPS[k])],
                   OVERLAPS)

PoolReturned == tpc \in {"reshape", "intersect", "done"}

\* C10: once pool.map has returned (at least one worker, at least one
\* record), whatever the number of workers and the order in which they
\* finished their chunks, the merged table is the table of a single
\* sequential pass: the same rows, in input order, with the same child
\* annotation; and the output file written is the one that table gives, so
\* two runs on the same input write the same output.
C10_MergedTableIsSequentialPass ==
    /\ PoolReturned => data_used = SequentialPass
    /\ tpc = "done" => output = <<OutputFrom(SequentialPass)>>

\* Two workers finished their chunks in the reverse of the chunk order, the
\* chunks differ, and the table has been merged and the output written.
C10_Witness ==
    /\ tpc = "done"
    /\ n_cores >= 2
    /\ \E i \in DOMAIN done_order : \E j \in DOMAIN done_order :
           /\ i < j /\ done_order[i] > done_order[j]
           /\ result_chunks[done_order[i]] # result_chunks[done_order[j]]
    /\ \E i \in DOMAIN data_used : data_used[i].child # <<>>
    /\ \E i \in DOMAIN data_used : data_used[i].child = <<>>

\* The key of a child record: SampleID, Chr, and Type when a type column is given.
LabelKey(r) ==
    <<r.SampleID, r.Chr, IF TYPE_COL = "None" THEN <<>> ELSE r.Type>>

AfterReshape == tpc \in {"intersect", "done"} \/ (tpc = "error" /\ chunks # <<>>)

\* C11: for every child interval the SampleID and the Chr of the written
\* table, read back from the composite label by splitting it on "_", are the
\* SampleID and the Chr the record had in the input, also when they hold an
\* underscore; and two child records of different (SampleID, Chr[, Type])
\* never carry the same composite label.
C11_LabelRoundTripAndInjective ==
    /\ tpc = "done" =>
           /\ Len(output[1]) = Len(child_rows)
           /\ \A k \in DOMAIN child_rows :
                  /\ output[1][k].SampleID = child_rows[k].SampleID
                  /\ output[1][k].Chr = child_rows[k].Chr
    /\ AfterReshape =>
           \A i \in DOMAIN child_rows : \A j \in DOMAIN child_rows :
               LabelKey(child_rows[i]) # LabelKey(child_rows[j])
                   => child_cnv[i].Chr # child_cnv[j].Chr

\* The input records of the children of complete trios, in input order.
ChildIntervals ==
    LET ids == {FILE_CNV[i].SampleID : i \in DOMAIN FILE_CNV}
    IN  SelectSeq(FILE_CNV, LAMBDA r :
            \E t \in DOMAIN PEDIGREE_FILE :
                /\ PEDIGREE_FILE[t].SampleID = r.SampleID
                /\ PEDIGREE_FILE[t].FatherID \in ids
                /\ PEDIGREE_FILE[t].MotherID \in ids)

Coordinates(rows) ==
    [k \in DOMAIN rows |-> <<rows[k].SampleID, rows[k].Chr, rows[k].Start, rows[k].End>>]

\* C12: every input interval of a child with both parents in the CNV data
\* is once in the child table and once in the written table, in input
\* order, also when the child is the father or mother of other children.
C12_ChildIntervalsExactlyOnce ==
    /\ AfterReshape => Coordinates(child_rows) = Coordinates(ChildIntervals)
    /\ tpc = "done" => Coordinates(output[1]) = Coordinates(ChildIntervals)

=============================================================================
